---------------------------- MODULE Spec2Model ----------------------------
(***************************************************************************)
(* Model of Platform/RaspberryPi/Library/DualSerialPortLib: the serial     *)
(* port library that drives either the 16550-compatible mini UART or the   *)
(* PL011 UART of the Raspberry Pi, chosen from the GPIO pin muxing.        *)
(*                                                                         *)
(* The driver is one thread of control.  A public operation is entered     *)
(* from pc = "idle"; straight-line code is one step, and every busy-wait   *)
(* loop of the source is a program position of its own, where each poll    *)
(* of a volatile register (LSR, MSR, the receive buffer) reads a value the *)
(* hardware chooses.  An operation ends in pc = "done" with its result in  *)
(* ret; the caller then takes the result and the driver is idle again.     *)
(***************************************************************************)
EXTENDS Integers, Sequences, FiniteSets, TLC

VARIABLES
  Pcd,              \* platform configuration database values (fixed per run)
  Gpfsel1,          \* GPIO function select register 1 (GPIO_BASE_ADDRESS + 4)
  CmVpuDivisor,     \* BCM2836_CM_VPU_CLOCK_DIVISOR register
  Uart,             \* 16550 register file of the mini UART
  UsePl011Uart,     \* global BOOLEAN UsePl011Uart
  UsePl011UartSet,  \* global BOOLEAN UsePl011UartSet
  pc,               \* program position of the driver
  frame,            \* locals of the operation in progress
  call,             \* the operation in progress or just finished, its arguments
  ret,              \* the result of the operation just finished
  log,              \* 16550 register stores of the current operation, in order
  rd,               \* 16550 register offsets loaded by the current operation
  gpioReads,        \* number of loads of Gpfsel1 made so far
  prevInitialize,   \* whether the operation that returned last was SerialPortInitialize
  prevControl,      \* the mask of the operation that returned last, if it was a
                    \* SerialPortSetControl that the mini UART accepted and no
                    \* operation but SerialPortGetControl was entered since
  polled,           \* what the volatile registers read as at the driver's last step
  callers           \* concurrent callers of the detection: position, locals and the
                    \* stores each has issued that are not yet visible to the others

vars == <<Pcd, Gpfsel1, CmVpuDivisor, Uart, UsePl011Uart, UsePl011UartSet,
          pc, frame, call, ret, log, rd, gpioReads, prevInitialize, prevControl, polled,
          callers>>

-----------------------------------------------------------------------------
(* Bounds of the model. *)

\* Longest buffer handed to SerialPortWrite / SerialPortRead.
MaxLen == 2

-----------------------------------------------------------------------------
(* 16550 register offsets and bit fields (DualSerialPortLib.c lines 34-55). *)

R_UART_RXBUF == 0
R_UART_TXBUF == 0
R_UART_BAUD_LOW == 0
R_UART_BAUD_HIGH == 1
R_UART_IER == 1
R_UART_FCR == 2
B_UART_FCR_FIFOE == 1
B_UART_FCR_FIFO64 == 32
R_UART_LCR == 3
B_UART_LCR_DLAB == 128
R_UART_MCR == 4
B_UART_MCR_DTRC == 1
B_UART_MCR_RTS == 2
R_UART_LSR == 5
B_UART_LSR_RXRDY == 1
B_UART_LSR_TXRDY == 32
B_UART_LSR_TEMT == 64
R_UART_MSR == 6
B_UART_MSR_CTS == 16
B_UART_MSR_DSR == 32
B_UART_MSR_RI == 64
B_UART_MSR_DCD == 128

\* The pin-mux field of Gpfsel1 and its PL011 encoding (lines 209, 329).
GpioMuxMask == 258048
GpioMuxPl011 == 147456
\* The 24-bit mask of the VPU clock divisor (line 163).
VpuDivisorMask == 16777215
\* The reserved-bit mask of the line control register (lines 237, 268, 832).
LcrMask == 63

-----------------------------------------------------------------------------
(* C integer operators. *)

RECURSIVE BitAnd(_, _)
BitAnd(a, b) ==
  IF a = 0 \/ b = 0 THEN 0
  ELSE (a % 2) * (b % 2) + 2 * BitAnd(a \div 2, b \div 2)

RECURSIVE BitOr(_, _)
BitOr(a, b) ==
  IF a = 0 THEN b
  ELSE IF b = 0 THEN a
  ELSE (IF a % 2 = 1 \/ b % 2 = 1 THEN 1 ELSE 0) + 2 * BitOr(a \div 2, b \div 2)

\* (UINT8) x and (UINT8) ~mask
U8(x) == x % 256
Not8(mask) == 255 - mask

(***************************************************************************)
(* UINT32 and UINT64 values that need not fit a model-checker integer are  *)
(* held as four 16-bit limbs, least significant first; the operators below *)
(* are the C operators on them, 64 bits wide.                              *)
(***************************************************************************)
RECURSIVE Pow2(_)
Pow2(k) == IF k = 0 THEN 1 ELSE 2 * Pow2(k - 1)

Radix == Pow2(16)
HalfRadix == Pow2(15)

Wide(n) == <<n % Radix, (n \div Radix) % Radix, 0, 0>>
WideZero == <<0, 0, 0, 0>>
Lo32(a) == <<a[1], a[2], 0, 0>>
Narrow(a) == a[1] + Radix * a[2]

Shl1(a) ==
  << (2 * a[1]) % Radix,
     (2 * a[2] + a[1] \div HalfRadix) % Radix,
     (2 * a[3] + a[2] \div HalfRadix) % Radix,
     (2 * a[4] + a[3] \div HalfRadix) % Radix >>

RECURSIVE Shl(_, _)
Shl(a, k) == IF k = 0 THEN a ELSE Shl(Shl1(a), k - 1)

RECURSIVE GeqFrom(_, _, _)
GeqFrom(a, b, i) ==
  IF i = 0 THEN TRUE
  ELSE IF a[i] # b[i] THEN a[i] > b[i]
  ELSE GeqFrom(a, b, i - 1)

Geq(a, b) == GeqFrom(a, b, 4)

RECURSIVE Borrow(_, _, _)
Borrow(a, b, i) ==
  IF i = 0 THEN 0
  ELSE IF a[i] - b[i] - Borrow(a, b, i - 1) < 0 THEN 1 ELSE 0

SubLimb(a, b, i) == (a[i] - b[i] - Borrow(a, b, i - 1) + Radix) % Radix

Sub(a, b) == << SubLimb(a, b, 1), SubLimb(a, b, 2), SubLimb(a, b, 3), SubLimb(a, b, 4) >>

BitOf(a, i) == (a[(i \div 16) + 1] \div Pow2(i % 16)) % 2

IncLimb(a, i) ==
  IF \A j \in 1..(i - 1) : a[j] = Radix - 1 THEN (a[i] + 1) % Radix ELSE a[i]

Inc(a) == << IncLimb(a, 1), IncLimb(a, 2), IncLimb(a, 3), IncLimb(a, 4) >>

\* (a << 1) | bit
ShlIn(a, bit) == LET s == Shl1(a) IN << s[1] + bit, s[2], s[3], s[4] >>

(***************************************************************************)
(* Unsigned division a / b and a % b by shift and subtract, b # 0.         *)
(* DivBit brings down bit i of a into the partial quotient and remainder   *)
(* s; DivFrom does so for bits i down to 0, four at a time.  The test of   *)
(* s.q against the empty tuple is never true: it makes the model checker   *)
(* evaluate s before it descends, which keeps its evaluation stack short.  *)
(***************************************************************************)
DivBit(s, a, b, i) ==
  LET r1 == ShlIn(s.r, BitOf(a, i))
  IN  IF Geq(r1, b) THEN [q |-> ShlIn(s.q, 1), r |-> Sub(r1, b)]
      ELSE [q |-> ShlIn(s.q, 0), r |-> r1]

RECURSIVE DivFrom(_, _, _, _)
DivFrom(s, a, b, i) ==
  IF i < 0 \/ s.q = << >> THEN s
  ELSE DivFrom(DivBit(DivBit(DivBit(DivBit(s, a, b, i), a, b, i - 1), a, b, i - 2),
                      a, b, i - 3), a, b, i - 4)

DivMod(a, b) ==
  IF a = WideZero THEN [q |-> WideZero, r |-> WideZero]
  ELSE DivFrom([q |-> WideZero, r |-> WideZero], a, b, 63)

-----------------------------------------------------------------------------
(* Values the model draws from. *)

(***************************************************************************)
(* The platform configuration.  The line group decides the divisor and the *)
(* line control byte, the flow group the FIFO depth and the flow control.  *)
(* 500000000 / 115200 / 0x03 / 0x27 / 8 are the Raspberry Pi settings; the *)
(* others bring in a divisor wider than 16 bits (1200 baud), reserved and  *)
(* parity bits in the line control byte, a disabled FIFO, a 16-byte FIFO   *)
(* and an extended FIFO size of 0.                                         *)
(***************************************************************************)
Platforms ==
  { [Pcd |-> [PcdSerialBaudRate |-> 115200, PcdSerialClockRate |-> 500000000,
              PcdSerialLineControl |-> 3, PcdSerialFifoControl |-> 39,
              PcdSerialExtendedTxFifoSize |-> 8,
              PcdSerialUseHardwareFlowControl |-> FALSE, PcdSerialDetectCable |-> FALSE],
     CmVpuDivisor |-> 4096],
    [Pcd |-> [PcdSerialBaudRate |-> 1200, PcdSerialClockRate |-> 500000000,
              PcdSerialLineControl |-> 3, PcdSerialFifoControl |-> 0,
              PcdSerialExtendedTxFifoSize |-> 8,
              PcdSerialUseHardwareFlowControl |-> TRUE, PcdSerialDetectCable |-> FALSE],
     CmVpuDivisor |-> 4096],
    [Pcd |-> [PcdSerialBaudRate |-> 9600, PcdSerialClockRate |-> 250000000,
              PcdSerialLineControl |-> 223, PcdSerialFifoControl |-> 7,
              PcdSerialExtendedTxFifoSize |-> 8,
              PcdSerialUseHardwareFlowControl |-> TRUE, PcdSerialDetectCable |-> TRUE],
     CmVpuDivisor |-> 0],
    [Pcd |-> [PcdSerialBaudRate |-> 115200, PcdSerialClockRate |-> 500000000,
              PcdSerialLineControl |-> 3, PcdSerialFifoControl |-> 39,
              PcdSerialExtendedTxFifoSize |-> 0,
              PcdSerialUseHardwareFlowControl |-> FALSE, PcdSerialDetectCable |-> FALSE],
     CmVpuDivisor |-> 4096],
    [Pcd |-> [PcdSerialBaudRate |-> 115200, PcdSerialClockRate |-> 250000000,
              PcdSerialLineControl |-> 11, PcdSerialFifoControl |-> 0,
              PcdSerialExtendedTxFifoSize |-> 0,
              PcdSerialUseHardwareFlowControl |-> FALSE, PcdSerialDetectCable |-> TRUE],
     CmVpuDivisor |-> 0] }

\* Gpfsel1: pins 14/15 on ALT0 (PL011), on ALT5 (mini UART), and on ALT0 with
\* a neighbouring pin's field set too.
GpioValues == {147456, 73728, 409600}

\* The VPU clock divisor register: 1.0 in 12.12 fixed point, or 0.
VpuDivisors == { p.CmVpuDivisor : p \in Platforms }

\* What the volatile registers can read as.
LsrValues == {0, 1, 32, 64, 96, 97}
MsrValues == {0, 16, 32, 48, 203}
Bytes == {65, 66}

\* A UINT64 is its two 32-bit halves; (UINT32) x is x.lo.
U64(hi, lo) == [hi |-> hi, lo |-> lo]

\* Arguments of SerialPortSetAttributes: every sentinel, each field varied
\* alone over valid and invalid values, and some fully explicit settings.
\* 4294967296 and 268435456 are baud rates whose UINT32 product with 16 is 0.
DefaultAttributes ==
  [BaudRate |-> U64(0, 0), DataBits |-> 0, Parity |-> "DefaultParity",
   StopBits |-> "DefaultStopBits"]

AttributeInputs ==
     { [DefaultAttributes EXCEPT !.BaudRate = b] :
         b \in {U64(0, 0), U64(1, 0), U64(0, 268435456)} }
  \cup { [DefaultAttributes EXCEPT !.DataBits = d] : d \in {4, 9} }
  \cup { [DefaultAttributes EXCEPT !.Parity = q] : q \in {"NoParity", "InvalidParity"} }
  \cup { [DefaultAttributes EXCEPT !.StopBits = t] : t \in {"TwoStopBits", "InvalidStopBits"} }
  \cup { [BaudRate |-> U64(0, 9600), DataBits |-> 5, Parity |-> "OddParity",
          StopBits |-> "OneFiveStopBits"],
         [BaudRate |-> U64(0, 9600), DataBits |-> 7, Parity |-> "SpaceParity",
          StopBits |-> "OneStopBit"],
         [BaudRate |-> U64(0, 9600), DataBits |-> 9, Parity |-> "EvenParity",
          StopBits |-> "TwoStopBits"],
         [BaudRate |-> U64(0, 1200), DataBits |-> 8, Parity |-> "InvalidParity",
          StopBits |-> "OneStopBit"],
         [BaudRate |-> U64(0, 1200), DataBits |-> 6, Parity |-> "MarkParity",
          StopBits |-> "InvalidStopBits"] }

\* Arguments of SerialPortSetControl: a mask is the set of its bits.
ControlInputs ==
  { {}, {"EFI_SERIAL_REQUEST_TO_SEND"}, {"EFI_SERIAL_DATA_TERMINAL_READY"},
    {"EFI_SERIAL_REQUEST_TO_SEND", "EFI_SERIAL_DATA_TERMINAL_READY",
     "EFI_SERIAL_HARDWARE_FLOW_CONTROL_ENABLE"},
    {"EFI_SERIAL_HARDWARE_FLOW_CONTROL_ENABLE"},
    {"BIT31"}, {"EFI_SERIAL_REQUEST_TO_SEND", "BIT31"},
    {"EFI_SERIAL_DATA_TERMINAL_READY", "EFI_SERIAL_HARDWARE_LOOPBACK_ENABLE"} }

\* Buffers of SerialPortWrite and SerialPortRead.
\* A pointer is NULL or points at bytes.
NULL == [null |-> TRUE, bytes |-> << >>]
Ptr(bytes) == [null |-> FALSE, bytes |-> bytes]
Buffers == { Ptr(b) : b \in UNION { [1..n -> Bytes] : n \in 0..MaxLen } }

\* The register file before the driver first touches it.
ResetUarts ==
  { [LCR |-> 0, DLL |-> 0, DLH |-> 0, IER |-> 5, FCR |-> 193, MCR |-> 19],
    [LCR |-> 3, DLL |-> 61, DLH |-> 4, IER |-> 0, FCR |-> 0, MCR |-> 0] }

-----------------------------------------------------------------------------
(* Register access, lines 66-93.  A machine m is the register file, the    *)
(* values on the bus for the volatile registers, and the record of the     *)
(* stores and loads made so far by the operation.                          *)

Machine(uart, bus, stores, loads) ==
  [uart |-> uart, bus |-> bus, log |-> stores, rd |-> loads]

NoBus == [LSR |-> 0, MSR |-> 0, RBR |-> 0]

Dlab(uart) == BitAnd(uart.LCR, B_UART_LCR_DLAB) # 0

\* The value MmioRead8 returns for the register at Offset.
SerialPortReadRegister(m, Offset) ==
  CASE Offset = R_UART_RXBUF -> IF Dlab(m.uart) THEN m.uart.DLL ELSE m.bus.RBR
    [] Offset = R_UART_IER -> IF Dlab(m.uart) THEN m.uart.DLH ELSE m.uart.IER
    [] Offset = R_UART_LCR -> m.uart.LCR
    [] Offset = R_UART_MCR -> m.uart.MCR
    [] Offset = R_UART_LSR -> m.bus.LSR
    [] Offset = R_UART_MSR -> m.bus.MSR

\* The machine after that load.
Loaded(m, Offset) == [m EXCEPT !.rd = @ \cup {Offset}]

\* The machine after MmioWrite8 of Value to the register at Offset.
SerialPortWriteRegister(m, Offset, Value) ==
  [m EXCEPT
    !.uart =
      CASE Offset = R_UART_TXBUF ->
             IF Dlab(m.uart) THEN [@ EXCEPT !.DLL = Value] ELSE @
        [] Offset = R_UART_IER ->
             IF Dlab(m.uart) THEN [@ EXCEPT !.DLH = Value] ELSE [@ EXCEPT !.IER = Value]
        [] Offset = R_UART_FCR -> [@ EXCEPT !.FCR = Value]
        [] Offset = R_UART_LCR -> [@ EXCEPT !.LCR = Value]
        [] Offset = R_UART_MCR -> [@ EXCEPT !.MCR = Value],
    !.log = Append(@, [off |-> Offset, val |-> Value, dlab |-> Dlab(m.uart)])]

-----------------------------------------------------------------------------
(* SerialPortWritable, lines 103-141: the value returned when MSR reads    *)
(* as m.bus.MSR, and the machine after the call.                           *)

\* A test of the modem status that does not consult
\* PcdSerialUseHardwareFlowControl.
SerialPortWritableUnconditional(m) ==
  IF Pcd.PcdSerialDetectCable
  THEN BitAnd(SerialPortReadRegister(m, R_UART_MSR), B_UART_MSR_DSR + B_UART_MSR_CTS)
         = B_UART_MSR_DSR + B_UART_MSR_CTS
  ELSE BitAnd(SerialPortReadRegister(m, R_UART_MSR), B_UART_MSR_DSR + B_UART_MSR_CTS)
         # B_UART_MSR_DSR

\* A test that takes CTS alone when no cable detection is configured.
SerialPortWritableCtsOnly(m) ==
  IF Pcd.PcdSerialUseHardwareFlowControl
  THEN IF Pcd.PcdSerialDetectCable
       THEN BitAnd(SerialPortReadRegister(m, R_UART_MSR), B_UART_MSR_DSR + B_UART_MSR_CTS)
              = B_UART_MSR_DSR + B_UART_MSR_CTS
       ELSE BitAnd(SerialPortReadRegister(m, R_UART_MSR), B_UART_MSR_CTS) # 0
  ELSE TRUE

SerialPortWritable(m) ==
  IF Pcd.PcdSerialUseHardwareFlowControl
  THEN IF Pcd.PcdSerialDetectCable
       THEN BitAnd(SerialPortReadRegister(m, R_UART_MSR), B_UART_MSR_DSR + B_UART_MSR_CTS)
              = B_UART_MSR_DSR + B_UART_MSR_CTS
       ELSE BitAnd(SerialPortReadRegister(m, R_UART_MSR), B_UART_MSR_DSR + B_UART_MSR_CTS)
              # B_UART_MSR_DSR
  ELSE TRUE

AfterWritable(m) ==
  IF Pcd.PcdSerialUseHardwareFlowControl THEN Loaded(m, R_UART_MSR) ELSE m

-----------------------------------------------------------------------------
(* SerialPortGetDivisor, lines 150-176. *)

\* BaseClockRate after lines 162-165, a UINT64.
BaseClockRate(clockRate, vpuDivisor) ==
  LET Base == Shl(Wide(clockRate), 2)
      Divisor == BitAnd(vpuDivisor, VpuDivisorMask)
  IN  IF Divisor # 0 THEN DivMod(Shl(Base, 12), Wide(Divisor)).q ELSE Base

\* SerialBaudRate * 16 and SerialBaudRate * 8 in UINT32 arithmetic.
BaudTimes16(SerialBaudRate) == Lo32(Shl(Wide(SerialBaudRate), 4))
BaudTimes8(SerialBaudRate) == Lo32(Shl(Wide(SerialBaudRate), 3))

\* Lines 171-175, for a denominator that is not 0.
DivisorFor(SerialBaudRate, clockRate, vpuDivisor) ==
  LET Clock == Lo32(BaseClockRate(clockRate, vpuDivisor))
      dm == DivMod(Clock, BaudTimes16(SerialBaudRate))
  IN  Narrow(IF Geq(dm.r, BaudTimes8(SerialBaudRate)) THEN Inc(dm.q) ELSE dm.q)


\* Arguments and surroundings of SerialPortGetDivisor taken alone: baud
\* rates up to one whose product with 16 does not fit 32 bits, clock rates
\* up to 2^30 Hz, and divisor registers below and above 1.0, with and
\* without bits above the 24 the code keeps.
DivisorBauds == {1200, 9600, 115200, 268435556}
DivisorClocks == {48000000, 250000000, 500000000, 1073741824}
DivisorVpus == {0, 1024, 4096, 5000, 8192, 16781312}

\* The baud rates SerialPortGetDivisor can be called with.
BaudDomain ==
  { p.Pcd.PcdSerialBaudRate : p \in Platforms } \cup { a.BaudRate.lo : a \in AttributeInputs }
    \cup DivisorBauds

ClockRates == { p.Pcd.PcdSerialClockRate : p \in Platforms } \cup DivisorClocks

\* The divisor is defined when the UINT32 denominator of line 171 is not 0.
DivisorDefined(SerialBaudRate) == BaudTimes16(SerialBaudRate) # WideZero

\* DivisorFor over the values of the model, evaluated once.
DivisorTable ==
  [b \in BaudDomain, c \in ClockRates, v \in VpuDivisors \cup DivisorVpus |->
     IF DivisorDefined(b) THEN DivisorFor(b, c, v) ELSE 0]

(***************************************************************************)
(* What SerialPortGetDivisor can return.  A denominator of 0 is undefined  *)
(* behaviour: the AArch64 build divides without trapping (quotient 0, then *)
(* perhaps incremented), another build traps.                              *)
(***************************************************************************)
Returned(Divisor) == [trap |-> FALSE, Divisor |-> Divisor]
Trapped == [trap |-> TRUE]

SerialPortGetDivisor(SerialBaudRate) ==
  IF DivisorDefined(SerialBaudRate)
  THEN { Returned(DivisorTable[SerialBaudRate, Pcd.PcdSerialClockRate, CmVpuDivisor]) }
  ELSE { Returned(0), Returned(1), Trapped }

-----------------------------------------------------------------------------
(* Variant detection, lines 208-211 and 328-331. *)

IsPl011Mux(mux) == BitAnd(mux, GpioMuxMask) = GpioMuxPl011

\* Detection that does not consult UsePl011UartSet.
DetectVariantAlways(set, use, mux) ==
  [UsePl011Uart |-> IsPl011Mux(mux), UsePl011UartSet |-> TRUE, reads |-> 1]

DetectVariant(set, use, mux) ==
  IF ~set
  THEN [UsePl011Uart |-> IsPl011Mux(mux), UsePl011UartSet |-> TRUE, reads |-> 1]
  ELSE [UsePl011Uart |-> use, UsePl011UartSet |-> set, reads |-> 0]

-----------------------------------------------------------------------------
(* The state before the first call, and the bookkeeping of a call. *)

NoCall == [op |-> "none"]
NoRet == [status |-> "none"]
NoFrame == [op |-> "none"]
NoControl == [set |-> FALSE, Control |-> {}]
NoCallers == << >>

Init ==
  /\ \E p \in Platforms : Pcd = p.Pcd /\ CmVpuDivisor = p.CmVpuDivisor
  /\ Gpfsel1 \in GpioValues
  /\ Uart \in ResetUarts
  /\ UsePl011Uart = FALSE
  /\ UsePl011UartSet = FALSE
  /\ pc = "idle"
  /\ frame = NoFrame
  /\ call = NoCall
  /\ ret = NoRet
  /\ log = << >>
  /\ rd = {}
  /\ gpioReads = 0
  /\ prevInitialize = FALSE
  /\ prevControl = NoControl
  /\ callers = NoCallers
  /\ polled = NoBus

\* A public operation is entered: what the caller passed, where it went.
Enter(op, args, backend) ==
  /\ call' = [op |-> op, args |-> args, backend |-> backend, entry |-> Uart,
              probed |-> UsePl011UartSet]

\* The operation goes on at program position next with locals fr.
GoOn(m, next, fr) ==
  /\ pc' = next
  /\ polled' = m.bus
  /\ frame' = fr
  /\ ret' = NoRet
  /\ Uart' = m.uart
  /\ log' = m.log
  /\ rd' = m.rd

\* The operation returns result.
Finish(m, result) ==
  /\ pc' = "done"
  /\ polled' = m.bus
  /\ frame' = NoFrame
  /\ ret' = result
  /\ Uart' = m.uart
  /\ log' = m.log
  /\ rd' = m.rd

\* The operation stops in a trap and never returns.
Halt ==
  /\ pc' = "trapped"
  /\ polled' = NoBus
  /\ frame' = NoFrame
  /\ ret' = NoRet
  /\ UNCHANGED <<Uart, log, rd>>

\* The operation is forwarded to the PL011 library, which is not modelled.
Forward ==
  /\ pc' = "done"
  /\ polled' = NoBus
  /\ frame' = NoFrame
  /\ ret' = [status |-> "PL011"]
  /\ UNCHANGED <<Uart, log, rd>>

Entry == Machine(Uart, NoBus, << >>, {})
Now(bus) == Machine(Uart, bus, log, rd)
Lsr(v) == [NoBus EXCEPT !.LSR = v]
Msr(v) == [NoBus EXCEPT !.MSR = v]

Detects ==
  LET d == DetectVariant(UsePl011UartSet, UsePl011Uart, Gpfsel1)
  IN  /\ UsePl011Uart' = d.UsePl011Uart
      /\ UsePl011UartSet' = d.UsePl011UartSet
      /\ gpioReads' = gpioReads + d.reads

NoDetect == UNCHANGED <<UsePl011Uart, UsePl011UartSet, gpioReads>>

Configured == UNCHANGED <<Pcd, Gpfsel1, CmVpuDivisor, prevInitialize, callers>>

Fixed == Configured /\ prevControl' = NoControl

TransmitterEmpty(lsr) ==
  BitAnd(lsr, B_UART_LSR_TEMT + B_UART_LSR_TXRDY) = B_UART_LSR_TEMT + B_UART_LSR_TXRDY

-----------------------------------------------------------------------------
(* SerialPortInitialize, lines 189-289. *)

\* A probe that leaves DLAB set after reading the divisor latch.
InitializeProbeLeavesDlab(m, Divisor) ==
  LET m1 == Loaded(m, R_UART_LCR)
      Matches == BitAnd(SerialPortReadRegister(m, R_UART_LCR), LcrMask)
                   = BitAnd(Pcd.PcdSerialLineControl, LcrMask)
      m2 == SerialPortWriteRegister(m1, R_UART_LCR,
              U8(BitOr(SerialPortReadRegister(m1, R_UART_LCR), B_UART_LCR_DLAB)))
      CurrentDivisor == BitOr(SerialPortReadRegister(m2, R_UART_BAUD_HIGH) * 256,
                              SerialPortReadRegister(m2, R_UART_BAUD_LOW))
      m3 == Loaded(Loaded(m2, R_UART_BAUD_HIGH), R_UART_BAUD_LOW)
  IN  [m |-> m3, Initialized |-> Matches /\ CurrentDivisor = Divisor]

\* Lines 236-246: is the port already initialized for Divisor?
InitializeProbe(m, Divisor) ==
  LET m1 == Loaded(m, R_UART_LCR)
      Matches == BitAnd(SerialPortReadRegister(m, R_UART_LCR), LcrMask)
                   = BitAnd(Pcd.PcdSerialLineControl, LcrMask)
      m2 == SerialPortWriteRegister(m1, R_UART_LCR,
              U8(BitOr(SerialPortReadRegister(m1, R_UART_LCR), B_UART_LCR_DLAB)))
      CurrentDivisor == BitOr(SerialPortReadRegister(m2, R_UART_BAUD_HIGH) * 256,
                              SerialPortReadRegister(m2, R_UART_BAUD_LOW))
      m3 == Loaded(Loaded(m2, R_UART_BAUD_HIGH), R_UART_BAUD_LOW)
      m4 == SerialPortWriteRegister(Loaded(m3, R_UART_LCR), R_UART_LCR,
              U8(BitAnd(SerialPortReadRegister(m3, R_UART_LCR), Not8(B_UART_LCR_DLAB))))
  IN  [m |-> m4, Initialized |-> Matches /\ CurrentDivisor = Divisor]

\* Programming that clears IER before it clears DLAB.
InitializeProgramIerUnderDlab(m, Divisor) ==
  LET m1 == SerialPortWriteRegister(m, R_UART_LCR, B_UART_LCR_DLAB)
      m2 == SerialPortWriteRegister(m1, R_UART_BAUD_HIGH, U8(Divisor \div 256))
      m3 == SerialPortWriteRegister(m2, R_UART_BAUD_LOW, U8(BitAnd(Divisor, 255)))
      m4 == SerialPortWriteRegister(m3, R_UART_IER, 0)
      m5 == SerialPortWriteRegister(m4, R_UART_LCR,
              U8(BitAnd(Pcd.PcdSerialLineControl, LcrMask)))
      m6 == SerialPortWriteRegister(m5, R_UART_FCR, 0)
      m7 == SerialPortWriteRegister(m6, R_UART_FCR,
              U8(BitAnd(Pcd.PcdSerialFifoControl, B_UART_FCR_FIFOE + B_UART_FCR_FIFO64)))
  IN  SerialPortWriteRegister(m7, R_UART_MCR, 0)

\* Lines 260-285: program the divisor, the line control, the FIFOs, IER, MCR.
InitializeProgram(m, Divisor) ==
  LET m1 == SerialPortWriteRegister(m, R_UART_LCR, B_UART_LCR_DLAB)
      m2 == SerialPortWriteRegister(m1, R_UART_BAUD_HIGH, U8(Divisor \div 256))
      m3 == SerialPortWriteRegister(m2, R_UART_BAUD_LOW, U8(BitAnd(Divisor, 255)))
      m4 == SerialPortWriteRegister(m3, R_UART_LCR,
              U8(BitAnd(Pcd.PcdSerialLineControl, LcrMask)))
      m5 == SerialPortWriteRegister(m4, R_UART_FCR, 0)
      m6 == SerialPortWriteRegister(m5, R_UART_FCR,
              U8(BitAnd(Pcd.PcdSerialFifoControl, B_UART_FCR_FIFOE + B_UART_FCR_FIFO64)))
      m7 == SerialPortWriteRegister(m6, R_UART_IER, 0)
  IN  SerialPortWriteRegister(m7, R_UART_MCR, 0)

Success == [status |-> "RETURN_SUCCESS"]

\* Lines 205-249: detect, then forward or probe.
SerialPortInitialize ==
  /\ pc = "idle"
  /\ Detects
  /\ Fixed
  /\ IF UsePl011Uart'
     THEN Enter("SerialPortInitialize", << >>, "PL011") /\ Forward
     ELSE /\ Enter("SerialPortInitialize", << >>, "MiniUart")
          /\ \E d \in SerialPortGetDivisor(Pcd.PcdSerialBaudRate) :
               IF d.trap THEN Halt
               ELSE LET probe == InitializeProbe(Entry, d.Divisor)
                    IN  IF probe.Initialized
                        THEN Finish(probe.m, Success)
                        ELSE GoOn(probe.m, "InitializeWait", [Divisor |-> d.Divisor])

\* Line 255, one poll that finds the transmitter busy.
InitializeSpin ==
  /\ pc = "InitializeWait"
  /\ \E lsr \in LsrValues :
       /\ ~TransmitterEmpty(lsr)
       /\ GoOn(Loaded(Now(Lsr(lsr)), R_UART_LSR), "InitializeWait", frame)
  /\ NoDetect
  /\ Fixed
  /\ UNCHANGED call

\* Line 255 with the transmitter empty, then lines 260-287.
InitializeReady ==
  /\ pc = "InitializeWait"
  /\ \E lsr \in LsrValues :
       /\ TransmitterEmpty(lsr)
       /\ Finish(InitializeProgram(Loaded(Now(Lsr(lsr)), R_UART_LSR), frame.Divisor),
                 Success)
  /\ NoDetect
  /\ Fixed
  /\ UNCHANGED call

-----------------------------------------------------------------------------
(* SerialPortWrite, lines 310-396. *)

\* Lines 362-369: the size of the transmit FIFO.
TxFifoSize ==
  IF BitAnd(Pcd.PcdSerialFifoControl, B_UART_FCR_FIFOE) # 0
  THEN IF BitAnd(Pcd.PcdSerialFifoControl, B_UART_FCR_FIFO64) = 0
       THEN 16
       ELSE Pcd.PcdSerialExtendedTxFifoSize
  ELSE 1

Count(n) == [status |-> "returned", count |-> n]

\* A for loop that is not limited by FifoSize.
WriteLoopUnlimited(fr) ==
  IF fr.NumberOfBytes # 0 THEN "WriteFlow" ELSE "return"

\* Where lines 372-393 go on from the test of the for loop (line 382).
WriteLoop(fr) ==
  IF fr.Index < fr.FifoSize /\ fr.NumberOfBytes # 0 THEN "WriteFlow"
  ELSE IF fr.NumberOfBytes # 0 THEN "WriteWait"
  ELSE "return"

\* A beginning that does not save NumberOfBytes in Result.
WriteBeginResultUnset(Buffer, NumberOfBytes) ==
  IF Buffer = NULL THEN Finish(Entry, Count(0))
  ELSE IF NumberOfBytes = 0 THEN GoOn(Entry, "WriteFlushWait", NoFrame)
  ELSE GoOn(Entry, "WriteWait",
            [Buffer |-> Buffer.bytes, NumberOfBytes |-> NumberOfBytes,
             Result |-> 0, FifoSize |-> TxFifoSize, Index |-> 0])

\* A beginning that returns at once when NumberOfBytes is 0.
WriteBeginNoFlush(Buffer, NumberOfBytes) ==
  IF Buffer = NULL \/ NumberOfBytes = 0 THEN Finish(Entry, Count(0))
  ELSE GoOn(Entry, "WriteWait",
            [Buffer |-> Buffer.bytes, NumberOfBytes |-> NumberOfBytes,
             Result |-> NumberOfBytes, FifoSize |-> TxFifoSize, Index |-> 0])

\* Lines 336-371, the mini UART path up to the first wait.
WriteBegin(Buffer, NumberOfBytes) ==
  IF Buffer = NULL THEN Finish(Entry, Count(0))
  ELSE IF NumberOfBytes = 0 THEN GoOn(Entry, "WriteFlushWait", NoFrame)
  ELSE GoOn(Entry, "WriteWait",
            [Buffer |-> Buffer.bytes, NumberOfBytes |-> NumberOfBytes,
             Result |-> NumberOfBytes, FifoSize |-> TxFifoSize, Index |-> 0])

\* Lines 322-338: detect, then forward or begin.
SerialPortWrite ==
  /\ pc = "idle"
  /\ Detects
  /\ Fixed
  /\ \E Buffer \in Buffers \cup {NULL} :
       \E NumberOfBytes \in IF Buffer = NULL THEN 0..MaxLen ELSE {Len(Buffer.bytes)} :
         LET args == [Buffer |-> Buffer, NumberOfBytes |-> NumberOfBytes]
         IN  IF UsePl011Uart'
             THEN Enter("SerialPortWrite", args, "PL011") /\ Forward
             ELSE Enter("SerialPortWrite", args, "MiniUart")
                    /\ WriteBegin(Buffer, NumberOfBytes)

Running == NoDetect /\ Fixed /\ UNCHANGED call

\* Line 350, one poll that finds the transmitter busy.
WriteFlushSpin ==
  /\ pc = "WriteFlushWait"
  /\ \E lsr \in LsrValues :
       /\ ~TransmitterEmpty(lsr)
       /\ GoOn(Loaded(Now(Lsr(lsr)), R_UART_LSR), "WriteFlushWait", frame)
  /\ Running

\* Line 350 with the transmitter empty.
WriteFlushEmpty ==
  /\ pc = "WriteFlushWait"
  /\ \E lsr \in LsrValues :
       /\ TransmitterEmpty(lsr)
       /\ GoOn(Loaded(Now(Lsr(lsr)), R_UART_LSR), "WriteFlushFlow", frame)
  /\ Running

\* Line 355, one call of SerialPortWritable that returns FALSE.
WriteFlushFlowSpin ==
  /\ pc = "WriteFlushFlow"
  /\ \E msr \in MsrValues :
       /\ ~SerialPortWritable(Now(Msr(msr)))
       /\ GoOn(AfterWritable(Now(Msr(msr))), "WriteFlushFlow", frame)
  /\ Running

\* Line 355 with the port writable, and the return of line 356.
WriteFlushFlowReady ==
  /\ pc = "WriteFlushFlow"
  /\ \E msr \in MsrValues :
       /\ SerialPortWritable(Now(Msr(msr)))
       /\ Finish(AfterWritable(Now(Msr(msr))), Count(0))
  /\ Running

\* Line 377, one poll that finds the transmitter busy.
WriteSpin ==
  /\ pc = "WriteWait"
  /\ \E lsr \in LsrValues :
       /\ ~TransmitterEmpty(lsr)
       /\ GoOn(Loaded(Now(Lsr(lsr)), R_UART_LSR), "WriteWait", frame)
  /\ Running

\* Line 377 with the transmitter empty, up to the test of the for loop.
WriteEmpty ==
  /\ pc = "WriteWait"
  /\ \E lsr \in LsrValues :
       /\ TransmitterEmpty(lsr)
       /\ LET fr == [frame EXCEPT !.Index = 0]
          IN  GoOn(Loaded(Now(Lsr(lsr)), R_UART_LSR), WriteLoop(fr), fr)
  /\ Running

\* Line 386, one call of SerialPortWritable that returns FALSE.
WriteFlowSpin ==
  /\ pc = "WriteFlow"
  /\ \E msr \in MsrValues :
       /\ ~SerialPortWritable(Now(Msr(msr)))
       /\ GoOn(AfterWritable(Now(Msr(msr))), "WriteFlow", frame)
  /\ Running

\* Line 386 with the port writable, the store of line 391, the step of the
\* for loop, and the tests of lines 382 and 372.
WriteFlowReady ==
  /\ pc = "WriteFlow"
  /\ \E msr \in MsrValues :
       /\ SerialPortWritable(Now(Msr(msr)))
       /\ LET m == SerialPortWriteRegister(AfterWritable(Now(Msr(msr))), R_UART_TXBUF,
                                           Head(frame.Buffer))
              fr == [frame EXCEPT !.Index = @ + 1, !.NumberOfBytes = @ - 1,
                                  !.Buffer = Tail(@)]
          IN  IF WriteLoop(fr) = "return"
              THEN Finish(m, Count(fr.Result))
              ELSE GoOn(m, WriteLoop(fr), fr)
  /\ Running

-----------------------------------------------------------------------------
(* SerialPortRead, lines 409-458. *)

HardwareFlowControl == Pcd.PcdSerialUseHardwareFlowControl

\* The store of line 440, which the loop of line 435 repeats on every poll:
\* a store that repeats the last one recorded is recorded once.
StoreAgain(m, Offset, Value) ==
  LET m1 == SerialPortWriteRegister(m, Offset, Value)
  IN  IF m.log # << >> /\ m.log[Len(m.log)] = m1.log[Len(m1.log)]
      THEN [m1 EXCEPT !.log = m.log]
      ELSE m1

\* A loop that gives up after the first byte.
ReadLoopShort(m, fr) ==
  IF fr.NumberOfBytes # 0 /\ fr.Result = 0
  THEN GoOn(m, "ReadWait", [fr EXCEPT !.NumberOfBytes = @ - 1])
  ELSE Finish(m, [status |-> "returned", count |-> fr.Result, Buffer |-> fr.Buffer])

\* Where line 431 goes on from its test, NumberOfBytes-- != 0.
ReadLoop(m, fr) ==
  IF fr.NumberOfBytes # 0
  THEN GoOn(m, "ReadWait", [fr EXCEPT !.NumberOfBytes = @ - 1])
  ELSE Finish(m, [status |-> "returned", count |-> fr.Result, Buffer |-> fr.Buffer])

\* Lines 423-431, the mini UART path up to the first wait.
ReadBegin(Buffer, NumberOfBytes) ==
  IF Buffer = NULL THEN Finish(Entry, Count(0))
  ELSE LET Mcr == U8(BitAnd(SerialPortReadRegister(Entry, R_UART_MCR),
                            Not8(B_UART_MCR_RTS)))
       IN  ReadLoop(Loaded(Entry, R_UART_MCR),
                    [Buffer |-> << >>, NumberOfBytes |-> NumberOfBytes,
                     Result |-> 0, Mcr |-> Mcr])

\* Lines 420-431: forward or begin.
SerialPortRead ==
  /\ pc = "idle"
  /\ NoDetect
  /\ Fixed
  /\ \E Buffer \in {Ptr(<< >>), NULL}, NumberOfBytes \in 0..MaxLen :
       LET args == [Buffer |-> Buffer, NumberOfBytes |-> NumberOfBytes]
       IN  IF UsePl011Uart
           THEN Enter("SerialPortRead", args, "PL011") /\ Forward
           ELSE Enter("SerialPortRead", args, "MiniUart")
                  /\ ReadBegin(Buffer, NumberOfBytes)

\* Lines 435-441, one poll that finds no data.
ReadSpin ==
  /\ pc = "ReadWait"
  /\ \E lsr \in LsrValues :
       /\ BitAnd(lsr, B_UART_LSR_RXRDY) = 0
       /\ LET m == Loaded(Now(Lsr(lsr)), R_UART_LSR)
          IN  GoOn(IF HardwareFlowControl
                   THEN StoreAgain(m, R_UART_MCR, U8(BitOr(frame.Mcr, B_UART_MCR_RTS)))
                   ELSE m,
                   "ReadWait", frame)
  /\ Running

\* Lines 443-448 that leave MCR as the wait left it.
ReadLeaveRts(m, Mcr) == m

\* Lines 443-448.
ReadClearRts(m, Mcr) ==
  IF HardwareFlowControl THEN SerialPortWriteRegister(m, R_UART_MCR, Mcr) ELSE m

\* Line 435 with data ready, then lines 443-448.
ReadReady ==
  /\ pc = "ReadWait"
  /\ \E lsr \in LsrValues :
       /\ BitAnd(lsr, B_UART_LSR_RXRDY) # 0
       /\ GoOn(ReadClearRts(Loaded(Now(Lsr(lsr)), R_UART_LSR), frame.Mcr),
               "ReadTake", frame)
  /\ Running

\* Line 453, and the step and test of line 431.  LSR stays as last loaded.
ReadTake ==
  /\ pc = "ReadTake"
  /\ \E byte \in Bytes :
       LET m == Now([polled EXCEPT !.RBR = byte])
           fr == [frame EXCEPT
                    !.Buffer = Append(@, SerialPortReadRegister(m, R_UART_RXBUF)),
                    !.Result = @ + 1]
       IN  ReadLoop(Loaded(m, R_UART_RXBUF), fr)
  /\ Running

-----------------------------------------------------------------------------
(* SerialPortPoll, lines 471-506. *)

\* A poll that drives RTS whatever PcdSerialUseHardwareFlowControl says.
PollMiniUartAlwaysDrivesRts(m) ==
  LET m1 == Loaded(m, R_UART_LSR)
      Ready == BitAnd(SerialPortReadRegister(m, R_UART_LSR), B_UART_LSR_RXRDY) # 0
      Mcr == SerialPortReadRegister(m1, R_UART_MCR)
      m2 == SerialPortWriteRegister(Loaded(m1, R_UART_MCR), R_UART_MCR,
              IF Ready THEN U8(BitAnd(Mcr, Not8(B_UART_MCR_RTS)))
              ELSE U8(BitOr(Mcr, B_UART_MCR_RTS)))
  IN  [m |-> m2, ret |-> [status |-> "returned", value |-> Ready, lsr |-> m.bus.LSR]]

\* Lines 487-504 when LSR reads as m.bus.LSR.
PollMiniUart(m) ==
  LET m1 == Loaded(m, R_UART_LSR)
      Ready == BitAnd(SerialPortReadRegister(m, R_UART_LSR), B_UART_LSR_RXRDY) # 0
      Mcr == SerialPortReadRegister(m1, R_UART_MCR)
      m2 == IF ~HardwareFlowControl THEN m1
            ELSE SerialPortWriteRegister(Loaded(m1, R_UART_MCR), R_UART_MCR,
                   IF Ready THEN U8(BitAnd(Mcr, Not8(B_UART_MCR_RTS)))
                   ELSE U8(BitOr(Mcr, B_UART_MCR_RTS)))
  IN  [m |-> m2, ret |-> [status |-> "returned", value |-> Ready, lsr |-> m.bus.LSR]]

SerialPortPoll ==
  /\ pc = "idle"
  /\ NoDetect
  /\ Fixed
  /\ IF UsePl011Uart
     THEN Enter("SerialPortPoll", << >>, "PL011") /\ Forward
     ELSE /\ Enter("SerialPortPoll", << >>, "MiniUart")
          /\ \E lsr \in LsrValues :
               LET r == PollMiniUart(Machine(Uart, Lsr(lsr), << >>, {}))
               IN  Finish(r.m, r.ret)

-----------------------------------------------------------------------------
(* SerialPortSetControl, lines 518-561. *)

\* A mask test that leaves bit 31 out.
ControlSupportedLowBits(Control) ==
  Control \ {"EFI_SERIAL_REQUEST_TO_SEND", "EFI_SERIAL_DATA_TERMINAL_READY",
             "EFI_SERIAL_HARDWARE_FLOW_CONTROL_ENABLE", "BIT31"} = {}

\* Line 533: no bit of Control outside the three that can be set.
ControlSupported(Control) ==
  Control \ {"EFI_SERIAL_REQUEST_TO_SEND", "EFI_SERIAL_DATA_TERMINAL_READY",
             "EFI_SERIAL_HARDWARE_FLOW_CONTROL_ENABLE"} = {}

\* A store that builds MCR from the mask alone.
SetControlMiniUartFromZero(m, Control) ==
  LET Mcr1 == IF "EFI_SERIAL_DATA_TERMINAL_READY" \in Control
              THEN B_UART_MCR_DTRC ELSE 0
      Mcr2 == IF "EFI_SERIAL_REQUEST_TO_SEND" \in Control
              THEN BitOr(Mcr1, B_UART_MCR_RTS) ELSE Mcr1
  IN  SerialPortWriteRegister(Loaded(m, R_UART_MCR), R_UART_MCR, Mcr2)

\* Lines 543-557.
SetControlMiniUart(m, Control) ==
  LET Mcr0 == BitAnd(SerialPortReadRegister(m, R_UART_MCR),
                     Not8(B_UART_MCR_DTRC + B_UART_MCR_RTS))
      Mcr1 == IF "EFI_SERIAL_DATA_TERMINAL_READY" \in Control
              THEN BitOr(Mcr0, B_UART_MCR_DTRC) ELSE Mcr0
      Mcr2 == IF "EFI_SERIAL_REQUEST_TO_SEND" \in Control
              THEN BitOr(Mcr1, B_UART_MCR_RTS) ELSE Mcr1
  IN  SerialPortWriteRegister(Loaded(m, R_UART_MCR), R_UART_MCR, Mcr2)

SerialPortSetControl ==
  /\ pc = "idle"
  /\ NoDetect
  /\ Fixed
  /\ \E Control \in ControlInputs :
       IF UsePl011Uart
       THEN Enter("SerialPortSetControl", Control, "PL011") /\ Forward
       ELSE /\ Enter("SerialPortSetControl", Control, "MiniUart")
            /\ IF ~ControlSupported(Control)
               THEN Finish(Entry, [status |-> "RETURN_UNSUPPORTED"])
               ELSE Finish(SetControlMiniUart(Entry, Control), Success)

-----------------------------------------------------------------------------
(* SerialPortGetControl, lines 573-644. *)

\* Lines 589-640 when MSR and LSR read as m.bus.MSR and m.bus.LSR.
GetControlMiniUart(m) ==
  LET Msr_ == SerialPortReadRegister(m, R_UART_MSR)
      Mcr == SerialPortReadRegister(m, R_UART_MCR)
      Lsr_ == SerialPortReadRegister(m, R_UART_LSR)
      Flag(cond, name) == IF cond THEN {name} ELSE {}
  IN  Flag(BitAnd(Msr_, B_UART_MSR_CTS) = B_UART_MSR_CTS, "EFI_SERIAL_CLEAR_TO_SEND")
        \cup Flag(BitAnd(Msr_, B_UART_MSR_DSR) = B_UART_MSR_DSR,
                  "EFI_SERIAL_DATA_SET_READY")
        \cup Flag(BitAnd(Msr_, B_UART_MSR_RI) = B_UART_MSR_RI, "EFI_SERIAL_RING_INDICATE")
        \cup Flag(BitAnd(Msr_, B_UART_MSR_DCD) = B_UART_MSR_DCD,
                  "EFI_SERIAL_CARRIER_DETECT")
        \cup Flag(BitAnd(Mcr, B_UART_MCR_DTRC) = B_UART_MCR_DTRC,
                  "EFI_SERIAL_DATA_TERMINAL_READY")
        \cup Flag(BitAnd(Mcr, B_UART_MCR_RTS) = B_UART_MCR_RTS,
                  "EFI_SERIAL_REQUEST_TO_SEND")
        \cup Flag(HardwareFlowControl, "EFI_SERIAL_HARDWARE_FLOW_CONTROL_ENABLE")
        \cup Flag(TransmitterEmpty(Lsr_), "EFI_SERIAL_OUTPUT_BUFFER_EMPTY")
        \cup Flag(BitAnd(Lsr_, B_UART_LSR_RXRDY) = 0, "EFI_SERIAL_INPUT_BUFFER_EMPTY")

SerialPortGetControl ==
  /\ pc = "idle"
  /\ NoDetect
  /\ Configured
  /\ UNCHANGED prevControl
  /\ IF UsePl011Uart
     THEN Enter("SerialPortGetControl", << >>, "PL011") /\ Forward
     ELSE /\ Enter("SerialPortGetControl", << >>, "MiniUart")
          /\ \E msr \in MsrValues, lsr \in LsrValues :
               LET m == Machine(Uart, [NoBus EXCEPT !.MSR = msr, !.LSR = lsr], << >>, {})
               IN  Finish(Loaded(Loaded(Loaded(m, R_UART_MSR), R_UART_MCR), R_UART_LSR),
                          [status |-> "RETURN_SUCCESS", Control |-> GetControlMiniUart(m)])

-----------------------------------------------------------------------------
(* SerialPortSetAttributes, lines 679-836. *)

\* Lines 714-717.
ResolveBaudRate(BaudRate) ==
  IF BaudRate = U64(0, 0) THEN U64(0, Pcd.PcdSerialBaudRate) ELSE BaudRate

\* Resolution of DataBits without the upper limit of line 723.
ResolveDataBitsNoUpperLimit(DataBits) ==
  IF DataBits = 0
  THEN LET LcrData == Pcd.PcdSerialLineControl % 4
       IN  [valid |-> TRUE, Lcr |-> LcrData, out |-> LcrData + 5]
  ELSE IF DataBits < 5
       THEN [valid |-> FALSE, Lcr |-> 0, out |-> DataBits]
       ELSE [valid |-> TRUE, Lcr |-> DataBits - 5, out |-> DataBits]

\* Lines 719-730: the LCR field and the value of *DataBits afterwards.
ResolveDataBits(DataBits) ==
  IF DataBits = 0
  THEN LET LcrData == Pcd.PcdSerialLineControl % 4
       IN  [valid |-> TRUE, Lcr |-> LcrData, out |-> LcrData + 5]
  ELSE IF DataBits < 5 \/ DataBits > 8
       THEN [valid |-> FALSE, Lcr |-> 0, out |-> DataBits]
       ELSE [valid |-> TRUE, Lcr |-> DataBits - 5, out |-> DataBits]

\* Lines 732-783.
ResolveParity(Parity) ==
  IF Parity = "DefaultParity"
  THEN LET LcrParity == (Pcd.PcdSerialLineControl \div 8) % 8
       IN  [valid |-> TRUE, Lcr |-> LcrParity,
            out |-> CASE LcrParity = 0 -> "NoParity"
                      [] LcrParity = 3 -> "EvenParity"
                      [] LcrParity = 1 -> "OddParity"
                      [] LcrParity = 7 -> "SpaceParity"
                      [] LcrParity = 5 -> "MarkParity"
                      [] OTHER -> Parity]
  ELSE CASE Parity = "NoParity" -> [valid |-> TRUE, Lcr |-> 0, out |-> Parity]
         [] Parity = "EvenParity" -> [valid |-> TRUE, Lcr |-> 3, out |-> Parity]
         [] Parity = "OddParity" -> [valid |-> TRUE, Lcr |-> 1, out |-> Parity]
         [] Parity = "SpaceParity" -> [valid |-> TRUE, Lcr |-> 7, out |-> Parity]
         [] Parity = "MarkParity" -> [valid |-> TRUE, Lcr |-> 5, out |-> Parity]
         [] OTHER -> [valid |-> FALSE, Lcr |-> 0, out |-> Parity]

\* Resolution of StopBits that reads stop code 1 as two stop bits whatever
\* the data bits.
ResolveStopBitsIgnoringDataBits(StopBits, DataBits) ==
  IF StopBits = "DefaultStopBits"
  THEN LET LcrStop == (Pcd.PcdSerialLineControl \div 4) % 2
       IN  [valid |-> TRUE, Lcr |-> LcrStop,
            out |-> IF LcrStop = 0 THEN "OneStopBit" ELSE "TwoStopBits"]
  ELSE CASE StopBits = "OneStopBit" -> [valid |-> TRUE, Lcr |-> 0, out |-> StopBits]
         [] StopBits \in {"OneFiveStopBits", "TwoStopBits"} ->
              [valid |-> TRUE, Lcr |-> 1, out |-> StopBits]
         [] OTHER -> [valid |-> FALSE, Lcr |-> 0, out |-> StopBits]

\* Lines 785-817; DataBits is *DataBits as lines 719-730 left it.
ResolveStopBits(StopBits, DataBits) ==
  IF StopBits = "DefaultStopBits"
  THEN LET LcrStop == (Pcd.PcdSerialLineControl \div 4) % 2
       IN  [valid |-> TRUE, Lcr |-> LcrStop,
            out |-> IF LcrStop = 0 THEN "OneStopBit"
                    ELSE IF DataBits = 5 THEN "OneFiveStopBits" ELSE "TwoStopBits"]
  ELSE CASE StopBits = "OneStopBit" -> [valid |-> TRUE, Lcr |-> 0, out |-> StopBits]
         [] StopBits \in {"OneFiveStopBits", "TwoStopBits"} ->
              [valid |-> TRUE, Lcr |-> 1, out |-> StopBits]
         [] OTHER -> [valid |-> FALSE, Lcr |-> 0, out |-> StopBits]

\* Lines 714-817: whether the call goes on to line 822, the LCR value of line
\* 831, and the in/out parameters as the return finds them.
SetAttributesResolve(a) ==
  LET b == ResolveBaudRate(a.BaudRate)
      d == ResolveDataBits(a.DataBits)
      p == ResolveParity(a.Parity)
      t == ResolveStopBits(a.StopBits, d.out)
      a1 == [a EXCEPT !.BaudRate = b]
      a2 == [a1 EXCEPT !.DataBits = d.out]
      a3 == [a2 EXCEPT !.Parity = p.out]
      a4 == [a3 EXCEPT !.StopBits = t.out]
  IN  IF ~d.valid THEN [valid |-> FALSE, Lcr |-> 0, out |-> a1]
      ELSE IF ~p.valid THEN [valid |-> FALSE, Lcr |-> 0, out |-> a2]
      ELSE IF ~t.valid THEN [valid |-> FALSE, Lcr |-> 0, out |-> a3]
      ELSE [valid |-> TRUE, Lcr |-> U8(p.Lcr * 8 + t.Lcr * 4 + d.Lcr), out |-> a4]

\* Programming that leaves out the store of line 832.
SetAttributesProgramDivisorOnly(m, Divisor, Lcr) ==
  LET m1 == SerialPortWriteRegister(m, R_UART_LCR, B_UART_LCR_DLAB)
      m2 == SerialPortWriteRegister(m1, R_UART_BAUD_HIGH, U8(Divisor \div 256))
  IN  SerialPortWriteRegister(m2, R_UART_BAUD_LOW, U8(Divisor))

\* Lines 823-832.
SetAttributesProgram(m, Divisor, Lcr) ==
  LET m1 == SerialPortWriteRegister(m, R_UART_LCR, B_UART_LCR_DLAB)
      m2 == SerialPortWriteRegister(m1, R_UART_BAUD_HIGH, U8(Divisor \div 256))
      m3 == SerialPortWriteRegister(m2, R_UART_BAUD_LOW, U8(Divisor))
  IN  SerialPortWriteRegister(m3, R_UART_LCR, U8(BitAnd(Lcr, LcrMask)))

\* Lines 698-834, called with the arguments a.
SetAttributesCall(a) ==
  IF UsePl011Uart
  THEN Enter("SerialPortSetAttributes", a, "PL011") /\ Forward
  ELSE /\ Enter("SerialPortSetAttributes", a, "MiniUart")
       /\ LET r == SetAttributesResolve(a)
          IN  IF ~r.valid
              THEN Finish(Entry, [status |-> "RETURN_INVALID_PARAMETER", out |-> r.out])
              ELSE \E d \in SerialPortGetDivisor(r.out.BaudRate.lo) :
                     IF d.trap THEN Halt
                     ELSE Finish(SetAttributesProgram(Entry, d.Divisor, r.Lcr),
                                 [status |-> "RETURN_SUCCESS", out |-> r.out])

SerialPortSetAttributes ==
  /\ pc = "idle"
  /\ NoDetect
  /\ Fixed
  /\ \E a \in AttributeInputs : SetAttributesCall(a)

-----------------------------------------------------------------------------
(* The environment. *)

\* The caller takes the result; the driver is idle again.
Return ==
  /\ pc = "done"
  /\ pc' = "idle"
  /\ polled' = NoBus
  /\ prevInitialize' = (call.op = "SerialPortInitialize")
  /\ prevControl' = IF call.op = "SerialPortSetControl" /\ ret = Success
                    THEN [set |-> TRUE, Control |-> call.args]
                    ELSE NoControl
  /\ call' = NoCall
  /\ ret' = NoRet
  /\ frame' = NoFrame
  /\ log' = << >>
  /\ rd' = {}
  /\ NoDetect
  /\ UNCHANGED <<Pcd, Gpfsel1, CmVpuDivisor, Uart, callers>>

\* The pin muxing is changed behind the driver's back.
GpioChange ==
  /\ pc = "idle"
  /\ Gpfsel1' \in GpioValues \ {Gpfsel1}
  /\ UNCHANGED <<Pcd, CmVpuDivisor, Uart, UsePl011Uart, UsePl011UartSet, pc, frame,
                 call, ret, log, rd, gpioReads, prevInitialize, prevControl, polled,
                 callers>>

Next ==
  \/ SerialPortInitialize
  \/ InitializeSpin
  \/ InitializeReady
  \/ SerialPortWrite
  \/ WriteFlushSpin
  \/ WriteFlushEmpty
  \/ WriteFlushFlowSpin
  \/ WriteFlushFlowReady
  \/ WriteSpin
  \/ WriteEmpty
  \/ WriteFlowSpin
  \/ WriteFlowReady
  \/ SerialPortRead
  \/ ReadSpin
  \/ ReadReady
  \/ ReadTake
  \/ SerialPortPoll
  \/ SerialPortSetControl
  \/ SerialPortGetControl
  \/ SerialPortSetAttributes
  \/ Return
  \/ GpioChange

Spec == Init /\ [][Next]_vars

(***************************************************************************)
(* The waits of SerialPortWrite under the assumption that the hardware     *)
(* drains: whenever the driver is polling LSR (lines 350, 377) or the flow *)
(* control (lines 355, 386), the poll eventually finds the condition met.  *)
(***************************************************************************)
Fairness ==
  /\ WF_vars(WriteFlushEmpty)
  /\ WF_vars(WriteFlushFlowReady)
  /\ WF_vars(WriteEmpty)
  /\ WF_vars(WriteFlowReady)

FairSpec == Init /\ [][Next]_vars /\ Fairness

-----------------------------------------------------------------------------
(* SerialPortGetDivisor taken alone, lines 150-176: it is called with one  *)
(* of DivisorBauds under each clock rate and divisor register.             *)

DivisorInit ==
  /\ \E p \in Platforms, c \in DivisorClocks :
       Pcd = [p.Pcd EXCEPT !.PcdSerialClockRate = c]
  /\ CmVpuDivisor \in DivisorVpus
  /\ Gpfsel1 \in GpioValues
  /\ Uart \in ResetUarts
  /\ UsePl011Uart = FALSE
  /\ UsePl011UartSet = FALSE
  /\ pc = "idle"
  /\ frame = NoFrame
  /\ call = NoCall
  /\ ret = NoRet
  /\ log = << >>
  /\ rd = {}
  /\ gpioReads = 0
  /\ prevInitialize = FALSE
  /\ prevControl = NoControl
  /\ callers = NoCallers
  /\ polled = NoBus

GetDivisorCall ==
  /\ pc = "idle"
  /\ NoDetect
  /\ Fixed
  /\ \E SerialBaudRate \in DivisorBauds :
       /\ Enter("SerialPortGetDivisor", SerialBaudRate, "MiniUart")
       /\ \E d \in SerialPortGetDivisor(SerialBaudRate) :
            IF d.trap THEN Halt
            ELSE Finish(Entry, [status |-> "returned", Divisor |-> d.Divisor])

DivisorNext ==
  \/ GetDivisorCall
  \/ Return

DivisorSpec == DivisorInit /\ [][DivisorNext]_vars

-----------------------------------------------------------------------------
(* The line-control encoding of SerialPortSetAttributes taken alone: the   *)
(* configured line control ranges over every 6-bit value and the call is   *)
(* made with every valid explicit setting and with the three sentinels.    *)

LineControls == 0..63

ExplicitAttributes ==
  { [BaudRate |-> U64(0, 9600), DataBits |-> d, Parity |-> q, StopBits |-> t] :
      d \in 5..8,
      q \in {"NoParity", "OddParity", "EvenParity", "MarkParity", "SpaceParity"},
      t \in {"OneStopBit", "OneFiveStopBits", "TwoStopBits"} }

CodecPlatforms == { p \in Platforms : p.Pcd.PcdSerialBaudRate = 9600 }

CodecInit ==
  /\ \E p \in CodecPlatforms, l \in LineControls :
       /\ Pcd = [p.Pcd EXCEPT !.PcdSerialLineControl = l]
       /\ CmVpuDivisor = p.CmVpuDivisor
  /\ Gpfsel1 = GpioMuxPl011 \div 2
  /\ Uart \in ResetUarts
  /\ UsePl011Uart = FALSE
  /\ UsePl011UartSet = FALSE
  /\ pc = "idle"
  /\ frame = NoFrame
  /\ call = NoCall
  /\ ret = NoRet
  /\ log = << >>
  /\ rd = {}
  /\ gpioReads = 0
  /\ prevInitialize = FALSE
  /\ prevControl = NoControl
  /\ callers = NoCallers
  /\ polled = NoBus

CodecSetAttributes ==
  /\ pc = "idle"
  /\ NoDetect
  /\ Fixed
  /\ \E a \in ExplicitAttributes \cup {DefaultAttributes} : SetAttributesCall(a)

CodecNext == \/ CodecSetAttributes \/ Return

CodecSpec == CodecInit /\ [][CodecNext]_vars

-----------------------------------------------------------------------------
(* SerialPortWritable taken alone, over every modem status and the four    *)
(* settings of PcdSerialUseHardwareFlowControl and PcdSerialDetectCable.   *)

ModemStatuses == 0..255

WritableInit ==
  /\ \E p \in CodecPlatforms, HardwareFlow \in BOOLEAN, DetectCable \in BOOLEAN :
       /\ Pcd = [p.Pcd EXCEPT !.PcdSerialUseHardwareFlowControl = HardwareFlow,
                              !.PcdSerialDetectCable = DetectCable]
       /\ CmVpuDivisor = p.CmVpuDivisor
  /\ Gpfsel1 = GpioMuxPl011 \div 2
  /\ Uart \in ResetUarts
  /\ UsePl011Uart = FALSE
  /\ UsePl011UartSet = FALSE
  /\ pc = "idle"
  /\ frame = NoFrame
  /\ call = NoCall
  /\ ret = NoRet
  /\ log = << >>
  /\ rd = {}
  /\ gpioReads = 0
  /\ prevInitialize = FALSE
  /\ prevControl = NoControl
  /\ callers = NoCallers
  /\ polled = NoBus

WritableCall ==
  /\ pc = "idle"
  /\ NoDetect
  /\ Fixed
  /\ Enter("SerialPortWritable", << >>, "MiniUart")
  /\ \E msr \in ModemStatuses :
       LET m == Machine(Uart, Msr(msr), << >>, {})
       IN  Finish(AfterWritable(m),
                  [status |-> "returned", value |-> SerialPortWritable(m)])

WritableNext == \/ WritableCall \/ Return

WritableSpec == WritableInit /\ [][WritableNext]_vars

-----------------------------------------------------------------------------
(* The detection of lines 208-213 and 328-333 run by several callers at    *)
(* once.  UsePl011Uart and UsePl011UartSet are plain globals, neither      *)
(* volatile nor atomic, and the code has no barrier: the accesses race,    *)
(* and the compiler and the processor may make the two stores of lines     *)
(* 209-210 visible to another caller in either order.  A caller reads its  *)
(* own store once it has issued it.                                        *)

Callers == 2

Detecting == { "SerialPortInitialize", "SerialPortWrite" }

Caller(op) == [op |-> op, at |-> "check", backend |-> "none", issued |-> {}]

\* The store Caller t has issued to variable v, if any.
IssuedTo(t, v) == { st \in callers[t].issued : st.var = v }

\* What Caller t reads from v, whose value in memory is mem.
Visible(t, v, mem) ==
  IF IssuedTo(t, v) # {} THEN (CHOOSE st \in IssuedTo(t, v) : TRUE).val ELSE mem

RaceInit ==
  /\ \E p \in CodecPlatforms : Pcd = p.Pcd /\ CmVpuDivisor = p.CmVpuDivisor
  /\ Gpfsel1 \in GpioValues
  /\ Uart \in ResetUarts
  /\ UsePl011Uart = FALSE
  /\ UsePl011UartSet = FALSE
  /\ pc = "idle"
  /\ frame = NoFrame
  /\ call = NoCall
  /\ ret = NoRet
  /\ log = << >>
  /\ rd = {}
  /\ gpioReads = 0
  /\ prevInitialize = FALSE
  /\ prevControl = NoControl
  /\ polled = NoBus
  /\ callers \in [1..Callers -> { Caller(op) : op \in Detecting }]

RaceFrame ==
  UNCHANGED <<Pcd, Gpfsel1, CmVpuDivisor, Uart, pc, frame, call, ret, log, rd,
              prevInitialize, prevControl, polled>>

\* Lines 208 and 328: the test of UsePl011UartSet.
RaceCheck(t) ==
  /\ callers[t].at = "check"
  /\ callers' = [callers EXCEPT ![t].at =
                   IF Visible(t, "UsePl011UartSet", UsePl011UartSet)
                   THEN "dispatch" ELSE "read"]
  /\ UNCHANGED <<UsePl011Uart, UsePl011UartSet, gpioReads>>
  /\ RaceFrame

\* Lines 209 and 329: the load of the GPIO register and the store to
\* UsePl011Uart.
RaceRead(t) ==
  /\ callers[t].at = "read"
  /\ callers' = [callers EXCEPT
                   ![t].at = "set",
                   ![t].issued = @ \cup {[var |-> "UsePl011Uart",
                                          val |-> IsPl011Mux(Gpfsel1)]}]
  /\ gpioReads' = gpioReads + 1
  /\ UNCHANGED <<UsePl011Uart, UsePl011UartSet>>
  /\ RaceFrame

\* Lines 210 and 330: the store to UsePl011UartSet.
RaceSet(t) ==
  /\ callers[t].at = "set"
  /\ callers' = [callers EXCEPT
                   ![t].at = "dispatch",
                   ![t].issued = @ \cup {[var |-> "UsePl011UartSet", val |-> TRUE]}]
  /\ UNCHANGED <<UsePl011Uart, UsePl011UartSet, gpioReads>>
  /\ RaceFrame

\* Lines 213 and 333: the test of UsePl011Uart that picks the back-end.
RaceDispatch(t) ==
  /\ callers[t].at = "dispatch"
  /\ callers' = [callers EXCEPT
                   ![t].at = "dispatched",
                   ![t].backend = IF Visible(t, "UsePl011Uart", UsePl011Uart)
                                  THEN "PL011" ELSE "MiniUart"]
  /\ UNCHANGED <<UsePl011Uart, UsePl011UartSet, gpioReads>>
  /\ RaceFrame

\* A store that Caller t has issued becomes visible to the other callers.
RaceVisible(t) ==
  /\ \E st \in callers[t].issued :
       /\ callers' = [callers EXCEPT ![t].issued = @ \ {st}]
       /\ IF st.var = "UsePl011Uart"
          THEN UsePl011Uart' = st.val /\ UNCHANGED UsePl011UartSet
          ELSE UsePl011UartSet' = st.val /\ UNCHANGED UsePl011Uart
  /\ UNCHANGED gpioReads
  /\ RaceFrame

RaceNext ==
  \E t \in 1..Callers :
    \/ RaceCheck(t)
    \/ RaceRead(t)
    \/ RaceSet(t)
    \/ RaceDispatch(t)
    \/ RaceVisible(t)

RaceSpec == RaceInit /\ [][RaceNext]_vars

-----------------------------------------------------------------------------
(* The driver on a port that an earlier boot stage may have left with the  *)
(* divisor latch open (DLAB set in LCR).                                   *)

LatchUarts ==
  ResetUarts
    \cup { [LCR |-> 131, DLL |-> 61, DLH |-> 4, IER |-> 0, FCR |-> 0, MCR |-> 0] }

LatchInit ==
  /\ \E p \in CodecPlatforms : Pcd = p.Pcd /\ CmVpuDivisor = p.CmVpuDivisor
  /\ Gpfsel1 \in GpioValues
  /\ Uart \in LatchUarts
  /\ UsePl011Uart = FALSE
  /\ UsePl011UartSet = FALSE
  /\ pc = "idle"
  /\ frame = NoFrame
  /\ call = NoCall
  /\ ret = NoRet
  /\ log = << >>
  /\ rd = {}
  /\ gpioReads = 0
  /\ prevInitialize = FALSE
  /\ prevControl = NoControl
  /\ polled = NoBus
  /\ callers = NoCallers

LatchSpec == LatchInit /\ [][Next]_vars

-----------------------------------------------------------------------------
(* Properties. *)

MiniUartCall(op) == call.op = op /\ call.backend = "MiniUart"
HasReturned(op) == pc = "done" /\ MiniUartCall(op)

\* The pin-mux field of Gpfsel1 selects the PL011: bits 17:12 are 100100b.
MuxSelectsPl011(mux) == (mux \div 4096) % 64 = 36

\* C1: an operation called in the unprobed state, whichever of the seven it
\* is, is forwarded to the PL011 back-end iff the pin-mux field of the GPIO
\* register indicates PL011.
C1_FirstCallDispatch ==
  (call.op # "none" /\ ~call.probed) =>
    (call.backend = "PL011" <=> MuxSelectsPl011(Gpfsel1))

\* C2: the detection state is written by exactly one call, the first
\* SerialPortInitialize or SerialPortWrite, which reads the GPIO register
\* once and selects the PL011 iff (value & 0x0003F000) = 0x00024000; once
\* written, no step reads the GPIO register again or changes the variant.
C2_DetectionOnce ==
  [][ /\ UsePl011UartSet =>
           /\ UsePl011UartSet'
           /\ UsePl011Uart' = UsePl011Uart
           /\ gpioReads' = gpioReads
      /\ (~UsePl011UartSet /\ UsePl011UartSet') =>
           /\ pc = "idle"
           /\ call'.op \in {"SerialPortInitialize", "SerialPortWrite"}
           /\ gpioReads = 0
           /\ gpioReads' = 1
           /\ UsePl011Uart' = MuxSelectsPl011(Gpfsel1)
      /\ (~UsePl011UartSet /\ ~UsePl011UartSet') =>
           /\ UsePl011Uart' = UsePl011Uart
           /\ gpioReads' = gpioReads
           /\ call'.op \notin {"SerialPortInitialize", "SerialPortWrite"}
    ]_vars

\* A later SerialPortInitialize has run with the pin muxing changed since the
\* detection.
C2_Witness ==
  /\ pc = "done"
  /\ call.op = "SerialPortInitialize"
  /\ call.probed
  /\ gpioReads = 1
  /\ UsePl011Uart # MuxSelectsPl011(Gpfsel1)

\* C3: when SerialPortInitialize is called right after SerialPortInitialize
\* on the mini UART, the second call does not wait on LSR, stores to no
\* register but LCR, returns RETURN_SUCCESS, and leaves every register as the
\* first call left it.
C3_SecondInitializeShortCircuits ==
  (prevInitialize /\ MiniUartCall("SerialPortInitialize")) =>
    /\ pc # "InitializeWait"
    /\ pc = "done" =>
         /\ ret = Success
         /\ R_UART_LSR \notin rd
         /\ \A i \in 1..Len(log) : log[i].off = R_UART_LCR
         /\ Uart = call.entry

AllDefaults(a) ==
  /\ a.BaudRate = U64(0, 0)
  /\ a.DataBits = 0
  /\ a.Parity = "DefaultParity"
  /\ a.StopBits = "DefaultStopBits"

InvalidAttributes(a) ==
  \/ a.DataBits # 0 /\ a.DataBits \notin 5..8
  \/ a.Parity \notin {"DefaultParity", "NoParity", "EvenParity", "OddParity",
                      "SpaceParity", "MarkParity"}
  \/ a.StopBits \notin {"DefaultStopBits", "OneStopBit", "OneFiveStopBits", "TwoStopBits"}

\* C5: SerialPortSetAttributes on the mini UART with DataBits non-zero and
\* outside 5..8, or a parity or stop-bits value outside the enumeration,
\* returns RETURN_INVALID_PARAMETER having stored to no register, so every
\* register is as it was at entry.
C5_InvalidAttributesRejected ==
  (MiniUartCall("SerialPortSetAttributes") /\ InvalidAttributes(call.args)) =>
    /\ pc = "done"
    /\ ret.status = "RETURN_INVALID_PARAMETER"
    /\ log = << >>
    /\ Uart = call.entry

\* A call with DataBits 9 next to a valid parity and valid stop bits has been
\* rejected.
C5_Witness ==
  /\ HasReturned("SerialPortSetAttributes")
  /\ call.args.DataBits = 9
  /\ call.args.Parity = "EvenParity"
  /\ ret.status = "RETURN_INVALID_PARAMETER"

\* C6: SerialPortSetControl on the mini UART with a mask that has a bit
\* outside RequestToSend, DataTerminalReady and HardwareFlowControlEnable
\* returns RETURN_UNSUPPORTED having stored to no register: MCR is unchanged.
C6_UnsupportedControlRejected ==
  (MiniUartCall("SerialPortSetControl")
     /\ \E bit \in call.args :
          bit \notin {"EFI_SERIAL_REQUEST_TO_SEND", "EFI_SERIAL_DATA_TERMINAL_READY",
                      "EFI_SERIAL_HARDWARE_FLOW_CONTROL_ENABLE"}) =>
    /\ pc = "done"
    /\ ret.status = "RETURN_UNSUPPORTED"
    /\ log = << >>
    /\ Uart.MCR = call.entry.MCR
    /\ Uart = call.entry

\* A mask with bit 31 next to a supported bit is rejected.
C6_Witness ==
  /\ HasReturned("SerialPortSetControl")
  /\ call.args = {"EFI_SERIAL_REQUEST_TO_SEND", "BIT31"}
  /\ ret.status = "RETURN_UNSUPPORTED"

\* The bytes stored at the transmit buffer, in the order of the stores.
Transmitted == [i \in 1..Len(log) |-> log[i].val]
OnlyTransmits == \A i \in 1..Len(log) : log[i].off = R_UART_TXBUF /\ ~log[i].dlab

C8_WriteReturns == MiniUartCall("SerialPortWrite") ~> (pc = "done")

\* C9: SerialPortWrite on the mini UART with a buffer that is not NULL and
\* length 0 returns 0 and stores to no register; it loads LSR, and nothing
\* but LSR and MSR, and polls the flow control only after the LSR wait.
C9_ZeroLengthWriteFlushes ==
  (MiniUartCall("SerialPortWrite") /\ ~call.args.Buffer.null
     /\ call.args.NumberOfBytes = 0) =>
    /\ pc \in {"WriteFlushWait", "WriteFlushFlow", "done"}
    /\ log = << >>
    /\ Uart = call.entry
    /\ rd \subseteq {R_UART_LSR, R_UART_MSR}
    /\ pc = "WriteFlushWait" => R_UART_MSR \notin rd
    /\ pc = "WriteFlushFlow" =>
         R_UART_LSR \in rd /\ (TransmitterEmpty(polled.LSR) \/ R_UART_MSR \in rd)
    /\ pc = "done" => ret.count = 0 /\ R_UART_LSR \in rd

\* A zero-length write has returned after polling LSR and the flow control.
C9_Witness ==
  /\ HasReturned("SerialPortWrite")
  /\ ~call.args.Buffer.null
  /\ call.args.NumberOfBytes = 0
  /\ rd = {R_UART_LSR, R_UART_MSR}
  /\ ret.count = 0

\* C10: with PcdSerialUseHardwareFlowControl FALSE, SerialPortWrite on the
\* mini UART stores to no register but the transmit buffer (never to MCR),
\* loads no register but LSR (never MSR), and whenever it has come to the
\* flow-control test it passes it whatever MSR reads as.
C10_NoFlowControlNoModemAccess ==
  (MiniUartCall("SerialPortWrite") /\ ~Pcd.PcdSerialUseHardwareFlowControl) =>
    /\ \A i \in 1..Len(log) : log[i].off = R_UART_TXBUF
    /\ rd \subseteq {R_UART_LSR}
    /\ pc \in {"WriteFlushFlow", "WriteFlow"} =>
         \A msr \in MsrValues :
           /\ SerialPortWritable(Now(Msr(msr)))
           /\ AfterWritable(Now(Msr(msr))).rd = rd

\* A write of at least one byte has returned with flow control disabled and
\* cable detection enabled.
C10_Witness ==
  /\ HasReturned("SerialPortWrite")
  /\ ~Pcd.PcdSerialUseHardwareFlowControl
  /\ Pcd.PcdSerialDetectCable
  /\ ret.count > 0
  /\ Len(log) = ret.count

\* The derived clock of C11 as an exact integer: 4 x the configured rate,
\* times 4096 over the 24-bit masked divisor register when that is not 0.
ExactClock(clockRate, vpuDivisor) ==
  LET C4 == Shl(Wide(clockRate), 2)
      masked == vpuDivisor % 16777216
  IN  IF masked = 0 THEN C4 ELSE DivMod(Shl(C4, 12), Wide(masked)).q

\* C / (16 * B) rounded to nearest, ties up, in exact integers.
ExactRounding(B, clockRate, vpuDivisor) ==
  LET dm == DivMod(ExactClock(clockRate, vpuDivisor), Shl(Wide(B), 4))
  IN  IF Geq(dm.r, Shl(Wide(B), 3)) THEN Inc(dm.q) ELSE dm.q

\* C11: for every baud rate B > 0, clock rate and divisor register,
\* SerialPortGetDivisor returns C / (16 * B) rounded to nearest with ties up,
\* C and 16 * B being the exact integers.
C11_DivisorIsExactRounding ==
  (pc = "done" /\ call.op = "SerialPortGetDivisor") =>
    Wide(ret.Divisor) = ExactRounding(call.args, Pcd.PcdSerialClockRate, CmVpuDivisor)


\* C12: on the mini-UART path SerialPortSetAttributes, whatever its input,
\* completes with RETURN_SUCCESS or RETURN_INVALID_PARAMETER, and it never
\* passes through a division by zero in the divisor computation.
C12_SetAttributesCompletes ==
  MiniUartCall("SerialPortSetAttributes") =>
    /\ pc = "done"
    /\ ret.status \in {"RETURN_SUCCESS", "RETURN_INVALID_PARAMETER"}
    /\ ret.status = "RETURN_SUCCESS" => DivisorDefined(ret.out.BaudRate.lo)

\* The line-control byte of a setting: parity code, stop code and data code.
ParityCode(Parity) ==
  CASE Parity = "NoParity" -> 0
    [] Parity = "OddParity" -> 1
    [] Parity = "EvenParity" -> 3
    [] Parity = "MarkParity" -> 5
    [] Parity = "SpaceParity" -> 7

StopCode(StopBits) == IF StopBits = "OneStopBit" THEN 0 ELSE 1

PackedByte(a) ==
  (ParityCode(a.Parity) * 8 + StopCode(a.StopBits) * 4 + (a.DataBits - 5)) % 64

\* The setting a line-control byte stands for: stop code 1 is one and a half
\* stop bits with five data bits and two stop bits otherwise.
SameSetting(a, b) ==
  /\ b.DataBits = a.DataBits
  /\ b.Parity = a.Parity
  /\ b.StopBits = IF a.StopBits = "OneStopBit" THEN "OneStopBit"
                  ELSE IF a.DataBits = 5 THEN "OneFiveStopBits" ELSE "TwoStopBits"

\* C13: the byte SerialPortSetAttributes stores to LCR for a valid explicit
\* setting is (parityCode<<3 | stopCode<<2 | dataCode) & 0x3F, and a call
\* with the three sentinels under a configured line control equal to the
\* byte of a valid setting returns that setting's data bits and parity, and
\* its stop bits up to the reading of stop code 1 by the data bits.
C13_LineControlRoundTrip ==
  /\ (HasReturned("SerialPortSetAttributes") /\ call.args \in ExplicitAttributes) =>
       /\ ret.status = "RETURN_SUCCESS"
       /\ Uart.LCR = PackedByte(call.args)
  /\ (HasReturned("SerialPortSetAttributes") /\ call.args = DefaultAttributes) =>
       \A a \in ExplicitAttributes :
         PackedByte(a) = Pcd.PcdSerialLineControl => SameSetting(a, ret.out)

\* A default call has decoded a byte with stop code 1 and five data bits.
C13_Witness ==
  /\ HasReturned("SerialPortSetAttributes")
  /\ call.args = DefaultAttributes
  /\ \E a \in ExplicitAttributes :
       /\ PackedByte(a) = Pcd.PcdSerialLineControl
       /\ a.StopBits = "TwoStopBits"
       /\ a.DataBits = 5
       /\ ret.out.StopBits = "OneFiveStopBits"

\* The bytes SerialPortRead has taken from the receive buffer so far: one
\* for each load of R_UART_RXBUF.
Received ==
  IF pc \in {"ReadWait", "ReadTake"} THEN frame.Buffer
  ELSE IF HasReturned("SerialPortRead") /\ call.args.Buffer # NULL THEN ret.Buffer
  ELSE << >>

ReadingInto == MiniUartCall("SerialPortRead") /\ call.args.Buffer # NULL

\* C14: SerialPortRead with a buffer and a count n returns n, never less,
\* after n loads of the receive buffer; each load follows a load of LSR,
\* made after the previous load of the receive buffer, that showed RXRDY;
\* with n = 0 it returns 0 and the receive buffer is never loaded.
C14_ReadReturnsCount ==
  /\ [](ReadingInto =>
          /\ pc \in {"ReadWait", "ReadTake", "done"}
          /\ pc \in {"ReadWait", "ReadTake"} =>
               Len(Received) + frame.NumberOfBytes + 1 = call.args.NumberOfBytes
          /\ pc = "done" =>
               /\ ret.count = call.args.NumberOfBytes
               /\ Len(Received) = call.args.NumberOfBytes
          /\ Len(Received) = 0 => R_UART_RXBUF \notin rd)
  /\ [][ReadingInto' =>
          /\ Received' # Received =>
               /\ pc = "ReadTake"
               /\ Len(Received') = Len(Received) + 1
               /\ R_UART_RXBUF \in rd'
          /\ pc' = "ReadTake" =>
               /\ pc = "ReadWait"
               /\ R_UART_LSR \in rd'
               /\ BitAnd(polled'.LSR, B_UART_LSR_RXRDY) # 0]_vars

\* A read of MaxLen bytes has returned.
C14_Witness ==
  /\ HasReturned("SerialPortRead")
  /\ call.args.Buffer # NULL
  /\ call.args.NumberOfBytes = MaxLen
  /\ ret.count = MaxLen
  /\ R_UART_RXBUF \in rd

\* Bit 1 of a modem-control value is RTS.
RtsOf(mcr) == (mcr \div 2) % 2
SameButRts(mcr, other) == mcr % 2 = other % 2 /\ mcr \div 4 = other \div 4

\* C15: SerialPortPoll returns in the step that calls it; it returns TRUE
\* iff the LSR value it loaded has RXRDY set; with hardware flow control it
\* then stores MCR once, RTS clear if it returns TRUE and set if FALSE, the
\* other bits as they were; without hardware flow control it stores nothing.
C15_PollIsImmediate ==
  MiniUartCall("SerialPortPoll") =>
    /\ pc = "done"
    /\ R_UART_LSR \in rd
    /\ ret.value = (polled.LSR % 2 = 1)
    /\ HardwareFlowControl =>
         /\ Len(log) = 1
         /\ log[1].off = R_UART_MCR
         /\ RtsOf(log[1].val) = IF ret.value THEN 0 ELSE 1
         /\ SameButRts(log[1].val, call.entry.MCR)
         /\ Uart = [call.entry EXCEPT !.MCR = log[1].val]
    /\ ~HardwareFlowControl => log = << >> /\ Uart = call.entry

\* A poll with hardware flow control has found data and cleared RTS, which
\* was set.
C15_Witness ==
  /\ HasReturned("SerialPortPoll")
  /\ HardwareFlowControl
  /\ ret.value
  /\ RtsOf(call.entry.MCR) = 1
  /\ RtsOf(Uart.MCR) = 0

\* The stores of a reprogramming with divisor d, in order, each with the
\* state of DLAB it is made under.
Store(off, val, dlab) == [off |-> off, val |-> val, dlab |-> dlab]

Reprogramming(d) ==
  << Store(R_UART_LCR, B_UART_LCR_DLAB, FALSE),
     Store(R_UART_BAUD_HIGH, (d \div 256) % 256, TRUE),
     Store(R_UART_BAUD_LOW, d % 256, TRUE),
     Store(R_UART_LCR, Pcd.PcdSerialLineControl % 64, TRUE),
     Store(R_UART_FCR, 0, FALSE),
     Store(R_UART_FCR,
           BitAnd(Pcd.PcdSerialFifoControl, B_UART_FCR_FIFOE + B_UART_FCR_FIFO64), FALSE),
     Store(R_UART_IER, 0, FALSE),
     Store(R_UART_MCR, 0, FALSE) >>

ConfiguredDivisor ==
  DivisorTable[Pcd.PcdSerialBaudRate, Pcd.PcdSerialClockRate, CmVpuDivisor]

\* The two stores of the probe of lines 240 and 243 come first in the log.
ProbeStores == 2

\* C16: SerialPortInitialize that does not short-circuit makes no store of
\* the reprogramming before a load of LSR showed TEMT and TXRDY; it then
\* stores LCR = DLAB, the divisor high byte, the divisor low byte, LCR =
\* line control & 0x3F, FCR = 0, FCR = FIFO control & (FIFOE|FIFO64),
\* IER = 0, MCR = 0 in this order and returns RETURN_SUCCESS; the divisor
\* bytes are stored with DLAB set and IER with DLAB clear.
C16_InitializeSequence ==
  /\ [](MiniUartCall("SerialPortInitialize") =>
          /\ pc = "InitializeWait" => Len(log) = ProbeStores
          /\ (pc = "done" /\ R_UART_LSR \notin rd) => Len(log) = ProbeStores
          /\ (pc = "done" /\ R_UART_LSR \in rd) =>
               /\ ret = Success
               /\ TransmitterEmpty(polled.LSR)
               /\ SubSeq(log, ProbeStores + 1, Len(log)) = Reprogramming(ConfiguredDivisor)
               /\ ~Dlab(Uart))
  /\ [][(MiniUartCall("SerialPortInitialize")' /\ Len(log') > ProbeStores) =>
          /\ pc = "InitializeWait"
          /\ TransmitterEmpty(polled'.LSR)]_vars

\* An initialization has waited for the transmitter and reprogrammed the
\* port with a divisor of more than eight bits.
C16_Witness ==
  /\ HasReturned("SerialPortInitialize")
  /\ R_UART_LSR \in rd
  /\ Len(log) = ProbeStores + 8
  /\ log[ProbeStores + 2].val # 0
  /\ log[ProbeStores + 3].val # 0

LastStore(stores) == stores[Len(stores)]

\* C17: with hardware flow control, during SerialPortRead a store of MCR
\* with RTS set is made only in a step whose load of LSR showed RXRDY clear,
\* never on entry; once LSR shows RXRDY, MCR is stored with its value at
\* entry and RTS clear before the receive buffer is loaded, so that at every
\* load of the receive buffer and at a return with a count of 1 or more RTS
\* is clear and the other bits of MCR are those at entry.
C17_RtsBracketsReceiveWait ==
  /\ []((ReadingInto /\ HardwareFlowControl) =>
          /\ \A i \in 1..Len(log) :
               log[i].off = R_UART_MCR /\ SameButRts(log[i].val, call.entry.MCR)
          /\ Uart = [call.entry EXCEPT !.MCR = Uart.MCR]
          /\ (pc = "ReadTake" \/ (pc = "done" /\ ret.count >= 1)) =>
               /\ log # << >>
               /\ LastStore(log).val = Uart.MCR
               /\ RtsOf(Uart.MCR) = 0
               /\ SameButRts(Uart.MCR, call.entry.MCR))
  /\ [][(ReadingInto' /\ HardwareFlowControl) =>
          /\ (log' # log /\ RtsOf(LastStore(log').val) = 1) =>
               /\ pc = "ReadWait"
               /\ pc' = "ReadWait"
               /\ BitAnd(polled'.LSR, B_UART_LSR_RXRDY) = 0
          /\ pc' = "ReadTake" =>
               /\ log' = Append(log, LastStore(log'))
               /\ RtsOf(LastStore(log').val) = 0
          /\ pc = "idle" => log' = << >>
          /\ pc = "ReadTake" => log' = log /\ Uart' = Uart]_vars

\* With hardware flow control RTS was set while waiting for a byte and is
\* clear, with loopback still set as at entry, when the byte is taken.
C17_Witness ==
  /\ ReadingInto
  /\ HardwareFlowControl
  /\ pc = "ReadTake"
  /\ Len(log) = 2
  /\ RtsOf(log[1].val) = 1
  /\ RtsOf(Uart.MCR) = 0
  /\ call.entry.MCR \div 4 # 0

\* The depth of the transmit FIFO as configured: bit 0 of the FIFO control
\* enables the FIFO, bit 5 selects the extended size.
FifoDepth ==
  IF Pcd.PcdSerialFifoControl % 2 = 0 THEN 1
  ELSE IF (Pcd.PcdSerialFifoControl \div 32) % 2 = 0 THEN 16
  ELSE Pcd.PcdSerialExtendedTxFifoSize

\* Bits 5 and 4 of a modem-status value are DSR and CTS.
DsrOf(msr) == (msr \div 32) % 2 = 1
CtsOf(msr) == (msr \div 16) % 2 = 1

\* The modem status lets the driver transmit.
FlowControlAllows(msr) ==
  \/ ~Pcd.PcdSerialUseHardwareFlowControl
  \/ /\ Pcd.PcdSerialDetectCable
     /\ DsrOf(msr) /\ CtsOf(msr)
  \/ /\ ~Pcd.PcdSerialDetectCable
     /\ ~(DsrOf(msr) /\ ~CtsOf(msr))

WritingBytes == MiniUartCall("SerialPortWrite") /\ pc \in {"WriteWait", "WriteFlow"}

\* C18: in a SerialPortWrite of n > 0 bytes, Index counts the stores to the
\* transmit buffer since the last completed wait for TEMT and TXRDY; a store
\* is made only with Index below the FIFO depth (1, 16 or the extended
\* size, by bits 0 and 5 of the FIFO control), only after such a wait, and
\* only in a step whose test of the flow control found the port writable.
C18_FifoDepthBoundsBurst ==
  /\ [](WritingBytes =>
          /\ frame.FifoSize = FifoDepth
          /\ frame.Index <= FifoDepth
          /\ pc = "WriteFlow" => frame.Index < FifoDepth
          /\ OnlyTransmits)
  /\ [][MiniUartCall("SerialPortWrite")' =>
          /\ pc' = "WriteFlow" =>
               \/ pc = "WriteWait" /\ TransmitterEmpty(polled'.LSR) /\ frame'.Index = 0
                    /\ log' = log
               \/ pc = "WriteFlow"
          /\ (pc = "WriteFlow" /\ log' = log) => frame' = frame
          /\ log' # log =>
               /\ pc = "WriteFlow"
               /\ Len(log') = Len(log) + 1
               /\ FlowControlAllows(polled'.MSR)
               /\ Pcd.PcdSerialUseHardwareFlowControl => R_UART_MSR \in rd'
               /\ pc' \in {"WriteWait", "WriteFlow"} => frame'.Index = frame.Index + 1]_vars

\* With a FIFO of depth 1 the second byte waits for the transmitter again.
C18_Witness ==
  /\ WritingBytes
  /\ FifoDepth = 1
  /\ pc = "WriteFlow"
  /\ Len(log) = 1
  /\ frame.Index = 0
  /\ TransmitterEmpty(polled.LSR)

\* C19: SerialPortWritable returns TRUE without hardware flow control; DSR
\* and CTS both set with hardware flow control and cable detection; not
\* (DSR set and CTS clear) with hardware flow control and no cable
\* detection.  No other bit of MSR matters, and no register is stored.
C19_WritableByModemStatus ==
  HasReturned("SerialPortWritable") =>
    /\ ret.value =
         IF ~Pcd.PcdSerialUseHardwareFlowControl THEN TRUE
         ELSE IF Pcd.PcdSerialDetectCable
              THEN DsrOf(polled.MSR) /\ CtsOf(polled.MSR)
              ELSE ~(DsrOf(polled.MSR) /\ ~CtsOf(polled.MSR))
    /\ log = << >>
    /\ Uart = call.entry
    /\ rd \subseteq {R_UART_MSR}

\* With hardware flow control and no cable detection, a modem status with
\* DSR and CTS clear and other bits set lets the driver transmit.
C19_Witness ==
  /\ HasReturned("SerialPortWritable")
  /\ Pcd.PcdSerialUseHardwareFlowControl
  /\ ~Pcd.PcdSerialDetectCable
  /\ ~DsrOf(polled.MSR) /\ ~CtsOf(polled.MSR)
  /\ polled.MSR % 16 # 0
  /\ ret.value

\* A mask with no bit but RTS, DTR and the hardware-flow-control enable.
ValidMask(Control) ==
  Control \subseteq {"EFI_SERIAL_REQUEST_TO_SEND", "EFI_SERIAL_DATA_TERMINAL_READY",
                     "EFI_SERIAL_HARDWARE_FLOW_CONTROL_ENABLE"}

Bit(b) == IF b THEN 1 ELSE 0

\* C20: SerialPortSetControl with a valid mask makes exactly one store, to
\* MCR, of MCR as it was with bit 0 set iff DTR is in the mask and bit 1 set
\* iff RTS is in the mask; the flow-control enable in the mask changes
\* nothing; a SerialPortGetControl called next reports DTR and RTS as the
\* mask gave them.
C20_SetControlWritesMcrOnce ==
  /\ (HasReturned("SerialPortSetControl") /\ ValidMask(call.args)) =>
       /\ ret = Success
       /\ Len(log) = 1
       /\ log[1].off = R_UART_MCR
       /\ log[1].val % 2 = Bit("EFI_SERIAL_DATA_TERMINAL_READY" \in call.args)
       /\ RtsOf(log[1].val) = Bit("EFI_SERIAL_REQUEST_TO_SEND" \in call.args)
       /\ log[1].val \div 4 = call.entry.MCR \div 4
       /\ Uart = [call.entry EXCEPT !.MCR = log[1].val]
  /\ (HasReturned("SerialPortGetControl") /\ prevControl.set) =>
       /\ "EFI_SERIAL_DATA_TERMINAL_READY" \in ret.Control
            <=> "EFI_SERIAL_DATA_TERMINAL_READY" \in prevControl.Control
       /\ "EFI_SERIAL_REQUEST_TO_SEND" \in ret.Control
            <=> "EFI_SERIAL_REQUEST_TO_SEND" \in prevControl.Control
       /\ Uart = call.entry

\* SerialPortGetControl reports DTR set and RTS clear after a
\* SerialPortSetControl that asked for DTR alone, on a port in loopback.
C20_Witness ==
  /\ HasReturned("SerialPortGetControl")
  /\ prevControl.set
  /\ prevControl.Control = {"EFI_SERIAL_DATA_TERMINAL_READY"}
  /\ "EFI_SERIAL_DATA_TERMINAL_READY" \in ret.Control
  /\ "EFI_SERIAL_REQUEST_TO_SEND" \notin ret.Control
  /\ Uart.MCR \div 4 # 0

\* The divisor latch as lines 241-242 read it back.
DivisorLatch(uart) == uart.DLH * 256 + uart.DLL

\* C21: when SerialPortSetAttributes returns RETURN_SUCCESS no parameter is
\* left at its sentinel and each reports what was applied: Parity is one of
\* the five parities and its code is in LCR bits 5:3, StopBits is one of the
\* three settings and matches LCR bit 2, DataBits is 5 + LCR bits 1:0, and
\* BaudRate is non-zero and is the rate the stored divisor was computed from.
C21_SuccessReportsApplied ==
  (HasReturned("SerialPortSetAttributes") /\ ret.status = "RETURN_SUCCESS") =>
    /\ ret.out.Parity \in {"NoParity", "EvenParity", "OddParity", "SpaceParity",
                           "MarkParity"}
    /\ ParityCode(ret.out.Parity) = (Uart.LCR \div 8) % 8
    /\ ret.out.StopBits \in {"OneStopBit", "OneFiveStopBits", "TwoStopBits"}
    /\ StopCode(ret.out.StopBits) = (Uart.LCR \div 4) % 2
    /\ ret.out.DataBits = 5 + (Uart.LCR % 4)
    /\ ret.out.BaudRate # U64(0, 0)
    /\ ret.out.BaudRate.hi = 0
    /\ DivisorLatch(Uart)
         = DivisorTable[ret.out.BaudRate.lo, Pcd.PcdSerialClockRate, CmVpuDivisor] % 65536

AllDispatched ==
  \A t \in DOMAIN callers : callers[t].at = "dispatched" /\ callers[t].issued = {}

C23_InitializeLeavesConfigured ==
  HasReturned("SerialPortInitialize") =>
    /\ Uart.LCR % 64 = Pcd.PcdSerialLineControl % 64
    /\ DivisorLatch(Uart) = ConfiguredDivisor

\* The operations that leave LCR alone.
LeavesLcr ==
  \/ call.op \in {"SerialPortWrite", "SerialPortRead", "SerialPortPoll",
                  "SerialPortGetControl", "SerialPortSetControl"}
  \/ /\ call.op = "SerialPortSetAttributes"
     /\ pc = "done"
     /\ ret.status = "RETURN_INVALID_PARAMETER"

\* C24: DLAB is clear whenever SerialPortInitialize returns and whenever
\* SerialPortSetAttributes returns RETURN_SUCCESS; SerialPortWrite,
\* SerialPortRead, SerialPortPoll, SerialPortGetControl,
\* SerialPortSetControl and a failed SerialPortSetAttributes store nothing to
\* LCR; once clear at a step of the driver DLAB is clear after it, so from
\* the first SerialPortInitialize on every store of SerialPortWrite to
\* offset 0 and every load of SerialPortRead from offset 0 is made with DLAB
\* clear and reaches the data registers, not the divisor latch.
C24_DlabClearAtDataAccess ==
  /\ [](/\ HasReturned("SerialPortInitialize") => ~Dlab(Uart)
        /\ (HasReturned("SerialPortSetAttributes") /\ ret.status = "RETURN_SUCCESS")
             => ~Dlab(Uart)
        /\ (call.op # "none" /\ call.backend = "MiniUart" /\ LeavesLcr) =>
             /\ \A i \in 1..Len(log) : log[i].off # R_UART_LCR
             /\ Uart.LCR = call.entry.LCR
        /\ (MiniUartCall("SerialPortWrite") /\ ~Dlab(call.entry)) =>
             /\ OnlyTransmits
             /\ Uart.DLL = call.entry.DLL
        /\ (MiniUartCall("SerialPortRead") /\ ~Dlab(call.entry)) =>
             \A i \in 1..Len(Received) : Received[i] \in Bytes)
  /\ [][~Dlab(Uart) => ~Dlab(Uart')]_vars

\* SerialPortInitialize found the divisor latch open and returned with it
\* closed.
C24_Witness ==
  /\ HasReturned("SerialPortInitialize")
  /\ Dlab(call.entry)
  /\ ~Dlab(Uart)
=============================================================================
